---------------------------- MODULE Spec2Model ----------------------------
(***************************************************************************)
(* Model of the SureSight training pipeline (src/ml/train_model.py) and of *)
(* the in-memory user store (src/backend/services/users.py).               *)
(*                                                                         *)
(* Four components, each with its own specification:                       *)
(*   SpecTrain     main(): model.fit with the EarlyStopping and            *)
(*                 ModelCheckpoint callbacks, then model.save              *)
(*   SpecPartition get_datasets(): the two image_dataset_from_directory    *)
(*                 calls (subset="training" / subset="validation")         *)
(*   SpecStream    configure_dataset(): shuffle -> cache -> prefetch       *)
(*   SpecUsers     register_user() / get_user() behind the users router    *)
(*                                                                         *)
(* Validation losses are finite numbers in hundredths (0.80 is 80).        *)
(* Weights are identified by the number of the gradient update that        *)
(* produced them, so two weight values are equal only if they are the      *)
(* same snapshot.                                                          *)
(***************************************************************************)
EXTENDS Integers, Sequences, FiniteSets, TLC

VARIABLES
    \* ---- training run (main) ----
    pc,                 \* position of main(): train, validate, callbacks, train_end, save, done, aborted
    epoch,              \* epoch being run, 1-based
    batch,              \* training batches applied in this epoch
    vbatch,             \* validation batches evaluated in this epoch
    weights,            \* current model weights (id of the update that produced them)
    updates,            \* gradient updates applied so far
    hist,               \* history: per finished validation pass [loss, w]
    patience,           \* EarlyStopping.patience
    max_epochs,         \* epochs argument of model.fit
    restoreOnTrainEnd,  \* installed Keras restores best weights in on_train_end
    es_wait,            \* EarlyStopping.wait
    es_best,            \* EarlyStopping.best
    es_best_weights,    \* EarlyStopping.best_weights
    stop_training,      \* model.stop_training
    mc_best,            \* ModelCheckpoint.best
    bestFile,           \* weights held by best_damage_model.h5
    ckptWrites,         \* writes of best_damage_model.h5: [epoch, loss]
    finalFile,          \* weights held by damage_assessment_model_final.h5
    finalWrites,        \* number of writes of the final artifact
    decided,            \* epochs whose on_epoch_end callbacks have run
    diverged,           \* some training batch had a non-finite loss
    ranAfterDivergence, \* a training batch ran after a non-finite loss
    error,              \* exception that ended the run, "none" if none
    \* ---- dataset partition (get_datasets) ----
    files,              \* image files discovered under data_dir
    split,              \* validation_split, in percent
    seed,               \* seed passed to both loader calls
    call,               \* which get_datasets call is running (1 or 2)
    partPc,             \* training, validation, returned, raised
    train_ds,           \* per call: files of the subset="training" dataset
    val_ds,             \* per call: files of the subset="validation" dataset
    \* ---- optimized stream (configure_dataset) ----
    shuffleOn,          \* the shuffle argument
    iteration,          \* iteration (epoch) of the stream being served, 1-based
    shuffleRuns,        \* iterations in which the shuffle stage drew an order
    cache,              \* elements recorded by the cache stage
    cacheComplete,      \* the cache holds a whole pass and serves the next ones
    produced,           \* elements the producer has prepared in this iteration
    buffer,             \* prefetch buffer: prepared, not yet consumed
    bufferLimit,        \* current (autotuned) bound of the prefetch buffer
    consumed,           \* elements the consumer has taken in this iteration
    orders,             \* emission order of each finished iteration
    \* ---- user store (services/users.py, routers/users.py) ----
    users_db,           \* _users_db: user_id -> [username, email]
    requests,           \* requests handled so far
    lastReq,            \* the request handled last
    lastResp            \* its response

trainVars == <<pc, epoch, batch, vbatch, weights, updates, hist, patience,
               max_epochs, restoreOnTrainEnd, es_wait, es_best,
               es_best_weights, stop_training, mc_best, bestFile, ckptWrites,
               finalFile, finalWrites, decided, diverged, ranAfterDivergence,
               error>>

partVars == <<files, split, seed, call, partPc, train_ds, val_ds>>

streamVars == <<shuffleOn, iteration, shuffleRuns, cache, cacheComplete,
                produced, buffer, bufferLimit, consumed, orders>>

userVars == <<users_db, requests, lastReq, lastResp>>

vars == <<trainVars, partVars, streamVars, userVars>>

\* what a step of one component leaves alone
notTrain == <<partVars, streamVars, userVars>>
notPart == <<trainVars, streamVars, userVars>>
notStream == <<trainVars, partVars, userVars>>
notUsers == <<trainVars, partVars, streamVars>>

----------------------------------------------------------------------------
(* Bounds and program constants                                            *)

MaxEpochs == 5
StepsPerEpoch == 2
ValSteps == 2
\* EarlyStopping(patience=3)
Patience == 3
\* smallest patience tried (the spec's scenario B uses 2)
MinPatience == 2
\* val_loss values in hundredths: 0.80, 0.81, 0.82, 0.85, 0.90
LossValues == {80, 81, 82, 85, 90}
\* np.inf, the initial best of a callback monitoring a loss
Inf == 1000
\* largest number of image files in the directory
MaxFiles == 5
\* seeds range over 0..MaxSeed
MaxSeed == 3
\* validation_split values, in percent (0.2 is the one main() passes)
SplitPercents == {20, 50}
\* states of the stand-in random generator
RngStates == 0..15
\* batches of the underlying dataset
NumBatches == 3
\* iterations (epochs) of the stream
MaxIterations == 3
\* ds.shuffle(1000)
ShuffleBufferSize == 1000
\* largest value the autotuned prefetch bound takes
MaxPrefetch == 2
\* user ids uuid4 draws from, e-mail addresses, user names, requests
MaxUserIds == 3
MaxEmails == 3
MaxUsernames == 2
MaxRequests == 4
\* HTTP status codes of the users router
StatusOk == 200
StatusBadRequest == 400
StatusUnauthorized == 401
StatusNotFound == 404
\* None, for a weight snapshot or a file that does not exist yet
NoWeights == -1

----------------------------------------------------------------------------
(* Keras callbacks configured in main()                                    *)

\* EarlyStopping._is_improvement for monitor='val_loss', min_delta=0
ES_IsImprovement(current, best) == current < best

\* variant: stops one epoch late
ES_PatienceExceeded_Late(wait, p, e) == wait > p /\ e > 1

\* EarlyStopping: patience exhausted (never on the very first epoch)
ES_PatienceExceeded(wait, p, e) == wait >= p /\ e > 1

\* variant: restore_best_weights left off
ES_RestoredWeights_Kept(w, bw) == w

\* restore_best_weights=True: the weights set back when restoring
ES_RestoredWeights(w, bw) == IF bw # NoWeights THEN bw ELSE w

\* variant: a tie counts as an improvement
MC_MonitorOp_Ties(current, best) == current <= best

\* ModelCheckpoint monitor_op for monitor='val_loss', save_best_only=True
MC_MonitorOp(current, best) == current < best

\* variant: a non-finite loss raises
NonFiniteLossAborts_Raises == TRUE

\* main() installs no TerminateOnNaN callback and checks no loss itself
NonFiniteLossAborts == FALSE

\* variant: validation starts after the first batch
TrainPassComplete_Early(b) == b >= 1

\* the fit loop: the validation pass starts once every training batch is applied
TrainPassComplete(b) == b = StepsPerEpoch

\* a validation batch applies no gradient update
WeightsAfterValBatch(w, u) == w

----------------------------------------------------------------------------
(* Training run                                                            *)

\* the stream at rest, for the other specifications
StreamIdle ==
    /\ shuffleOn = FALSE
    /\ iteration = 1
    /\ shuffleRuns = 0
    /\ cache = << >>
    /\ cacheComplete = FALSE
    /\ produced = << >>
    /\ buffer = << >>
    /\ bufferLimit = 1
    /\ consumed = << >>
    /\ orders = << >>

\* the user store at rest, for the other specifications
UsersIdle ==
    /\ users_db = << >>
    /\ requests = 0
    /\ lastReq = [op |-> "none"]
    /\ lastResp = [status |-> 0]

\* the partition component at rest, for the other specifications
PartIdle ==
    /\ files = {}
    /\ split = 20
    /\ seed = 0
    /\ call = 1
    /\ partPc = "returned"
    /\ train_ds = << {}, {} >>
    /\ val_ds = << {}, {} >>

InitTrain ==
    /\ pc = "train"
    /\ epoch = 1
    /\ batch = 0
    /\ vbatch = 0
    /\ weights = 0
    /\ updates = 0
    /\ hist = << >>
    \* main() passes patience=3 and epochs=20; smaller values are run too
    /\ patience \in MinPatience..Patience
    /\ max_epochs \in 1..MaxEpochs
    \* the tensorflow import pins no version: tf.keras 2.x restores the best
    \* weights only in the epoch that stops the run, Keras 3 in on_train_end
    /\ restoreOnTrainEnd \in BOOLEAN
    /\ es_wait = 0
    /\ es_best = Inf
    /\ es_best_weights = NoWeights
    /\ stop_training = FALSE
    /\ mc_best = Inf
    /\ bestFile = NoWeights
    /\ ckptWrites = << >>
    /\ finalFile = NoWeights
    /\ finalWrites = 0
    /\ decided = 0
    /\ diverged = FALSE
    /\ ranAfterDivergence = FALSE
    /\ error = "none"
    /\ PartIdle
    /\ StreamIdle
    /\ UsersIdle

\* one training batch of model.fit: a gradient update, whatever the loss
TrainBatch ==
    /\ UNCHANGED notTrain
    /\ pc = "train"
    /\ ~TrainPassComplete(batch)
    /\ \E finite \in BOOLEAN :
         IF ~finite /\ NonFiniteLossAborts
         THEN /\ pc' = "aborted"
              /\ error' = "TrainingDivergenceError"
              /\ diverged' = TRUE
              /\ UNCHANGED <<batch, weights, updates, ranAfterDivergence>>
         ELSE /\ updates' = updates + 1
              /\ weights' = updates + 1
              /\ batch' = batch + 1
              /\ diverged' = (diverged \/ ~finite)
              /\ ranAfterDivergence' = (ranAfterDivergence \/ diverged)
              /\ UNCHANGED <<pc, error>>
    /\ UNCHANGED <<epoch, vbatch, hist, patience, max_epochs,
                   restoreOnTrainEnd, es_wait, es_best, es_best_weights,
                   stop_training, mc_best, bestFile, ckptWrites, finalFile,
                   finalWrites, decided>>

\* the training pass of the epoch is over: model.fit starts the validation pass
StartValidation ==
    /\ UNCHANGED notTrain
    /\ pc = "train"
    /\ TrainPassComplete(batch)
    /\ pc' = "validate"
    /\ vbatch' = 0
    /\ UNCHANGED <<epoch, batch, weights, updates, hist, patience, max_epochs,
                   restoreOnTrainEnd, es_wait, es_best, es_best_weights,
                   stop_training, mc_best, bestFile, ckptWrites, finalFile,
                   finalWrites, decided, diverged, ranAfterDivergence, error>>

\* one validation batch; the last one yields the epoch's val_loss
ValBatch ==
    /\ UNCHANGED notTrain
    /\ pc = "validate"
    /\ vbatch < ValSteps
    /\ vbatch' = vbatch + 1
    /\ weights' = WeightsAfterValBatch(weights, updates)
    /\ IF vbatch + 1 = ValSteps
       THEN \E loss \in LossValues :
              /\ hist' = Append(hist, [loss |-> loss, w |-> weights'])
              /\ pc' = "callbacks"
       ELSE UNCHANGED <<hist, pc>>
    /\ UNCHANGED <<epoch, batch, updates, patience, max_epochs,
                   restoreOnTrainEnd, es_wait, es_best, es_best_weights,
                   stop_training, mc_best, bestFile, ckptWrites, finalFile,
                   finalWrites, decided, diverged, ranAfterDivergence, error>>

\* callbacks.on_epoch_end: EarlyStopping first, then ModelCheckpoint, then
\* the fit loop's test of stop_training and of the epoch count
OnEpochEnd ==
    /\ UNCHANGED notTrain
    /\ pc = "callbacks"
    /\ LET current  == hist[epoch].loss
           \* EarlyStopping.on_epoch_end
           bw0      == IF es_best_weights = NoWeights THEN weights
                       ELSE es_best_weights
           improved == ES_IsImprovement(current, es_best)
           wait1    == IF improved THEN 0 ELSE es_wait + 1
           fires    == ~improved /\ ES_PatienceExceeded(wait1, patience, epoch)
           w1       == IF fires /\ ~restoreOnTrainEnd
                       THEN ES_RestoredWeights(weights, bw0)
                       ELSE weights
           \* ModelCheckpoint.on_epoch_end
           saves    == MC_MonitorOp(current, mc_best)
       IN  /\ es_wait' = wait1
           /\ es_best' = IF improved THEN current ELSE es_best
           /\ es_best_weights' = IF improved THEN weights ELSE bw0
           /\ stop_training' = fires
           /\ weights' = w1
           /\ mc_best' = IF saves THEN current ELSE mc_best
           /\ bestFile' = IF saves THEN w1 ELSE bestFile
           /\ ckptWrites' = IF saves
                            THEN Append(ckptWrites,
                                        [epoch |-> epoch, loss |-> current])
                            ELSE ckptWrites
           /\ decided' = epoch
           /\ IF fires \/ epoch = max_epochs
              THEN /\ pc' = "train_end"
                   /\ UNCHANGED <<epoch, batch>>
              ELSE /\ pc' = "train"
                   /\ epoch' = epoch + 1
                   /\ batch' = 0
    /\ UNCHANGED <<vbatch, updates, hist, patience, max_epochs,
                   restoreOnTrainEnd, finalFile, finalWrites, diverged,
                   ranAfterDivergence, error>>

\* callbacks.on_train_end: EarlyStopping restores here in Keras 3
OnTrainEnd ==
    /\ UNCHANGED notTrain
    /\ pc = "train_end"
    /\ weights' = IF restoreOnTrainEnd
                  THEN ES_RestoredWeights(weights, es_best_weights)
                  ELSE weights
    /\ pc' = "save"
    /\ UNCHANGED <<epoch, batch, vbatch, updates, hist, patience, max_epochs,
                   restoreOnTrainEnd, es_wait, es_best, es_best_weights,
                   stop_training, mc_best, bestFile, ckptWrites, finalFile,
                   finalWrites, decided, diverged, ranAfterDivergence, error>>

\* model.save("damage_assessment_model_final.h5")
SaveFinal ==
    /\ UNCHANGED notTrain
    /\ pc = "save"
    /\ finalFile' = weights
    /\ finalWrites' = finalWrites + 1
    /\ pc' = "done"
    /\ UNCHANGED <<epoch, batch, vbatch, weights, updates, hist, patience,
                   max_epochs, restoreOnTrainEnd, es_wait, es_best,
                   es_best_weights, stop_training, mc_best, bestFile,
                   ckptWrites, decided, diverged, ranAfterDivergence, error>>

NextTrain ==
    \/ TrainBatch
    \/ StartValidation
    \/ ValBatch
    \/ OnEpochEnd
    \/ OnTrainEnd
    \/ SaveFinal

SpecTrain == InitTrain /\ [][NextTrain]_vars

\* the training run at rest, for the other specifications
TrainIdle ==
    /\ pc = "done"
    /\ epoch = 1
    /\ batch = 0
    /\ vbatch = 0
    /\ weights = 0
    /\ updates = 0
    /\ hist = << >>
    /\ patience = Patience
    /\ max_epochs = MaxEpochs
    /\ restoreOnTrainEnd = FALSE
    /\ es_wait = 0
    /\ es_best = Inf
    /\ es_best_weights = NoWeights
    /\ stop_training = FALSE
    /\ mc_best = Inf
    /\ bestFile = NoWeights
    /\ ckptWrites = << >>
    /\ finalFile = NoWeights
    /\ finalWrites = 0
    /\ decided = 0
    /\ diverged = FALSE
    /\ ranAfterDivergence = FALSE
    /\ error = "none"


----------------------------------------------------------------------------
(* Properties of the training run                                          *)

\* epoch e's val_loss is strictly below the val_loss of every earlier epoch
Improved(e) == \A j \in 1..(e - 1) : hist[e].loss < hist[j].loss

\* the epoch holding the lowest val_loss (the first one, on a tie)
BestEpoch == CHOOSE e \in 1..Len(hist) :
                 /\ \A j \in 1..Len(hist) : hist[e].loss <= hist[j].loss
                 /\ \A j \in 1..(e - 1) : hist[j].loss > hist[e].loss

Losses == [i \in 1..Len(hist) |-> hist[i].loss]

FitReturned == pc \in {"save", "done"}

\* C1: if epoch k is the last epoch that strictly improved val_loss and the
\* patience epochs k+1 .. k+patience all fail to improve, training halts at
\* the end of epoch k+patience (no later epoch runs, whatever max_epochs is)
\* and the weights after halting are those snapshotted at the end of epoch k.
C1_EarlyStopHaltsAndRestores ==
    \A k \in 1..Len(hist) :
        ( /\ Improved(k)
          /\ k + patience <= Len(hist)
          /\ \A j \in (k + 1)..(k + patience) : ~Improved(j) )
        => /\ Len(hist) = k + patience
           /\ epoch = k + patience
           /\ (pc # "callbacks"
                 => stop_training /\ pc \in {"train_end", "save", "done"})
           /\ (FitReturned => weights = hist[k].w /\ weights # hist[epoch].w)

\* scenario B: losses 0.9, 0.8, 0.85, 0.82 with patience 2 and a fifth epoch
\* allowed: stopped after epoch 4 holding the weights of epoch 2
C1_ScenarioB ==
    /\ patience = 2
    /\ max_epochs = 5
    /\ pc = "done"
    /\ Losses = <<90, 80, 85, 82>>
    /\ stop_training
    /\ weights = hist[2].w

\* C2: the best checkpoint is written at the end of an epoch exactly when
\* that epoch's val_loss is strictly below every earlier epoch's; the losses
\* of the successive writes strictly decrease; a tie or a worse value writes
\* nothing.
C2_CheckpointMonotonic ==
    /\ \A e \in 1..decided :
          (\E i \in 1..Len(ckptWrites) : ckptWrites[i].epoch = e)
              <=> Improved(e)
    /\ \A i \in 1..Len(ckptWrites) :
          /\ ckptWrites[i].epoch <= decided
          /\ ckptWrites[i].loss = hist[ckptWrites[i].epoch].loss
    /\ \A i \in 1..(Len(ckptWrites) - 1) :
          /\ ckptWrites[i + 1].loss < ckptWrites[i].loss
          /\ ckptWrites[i + 1].epoch > ckptWrites[i].epoch

\* two writes, then an epoch that ties the best value and writes nothing
C2_TieWritesNothing ==
    /\ decided = 3
    /\ Len(ckptWrites) = 2
    /\ hist[3].loss = hist[2].loss
    /\ hist[2].loss < hist[1].loss

C7_Positions ==
    /\ pc = "train"
         => /\ Len(hist) = epoch - 1
            /\ decided = epoch - 1
            /\ updates = (epoch - 1) * StepsPerEpoch + batch
    /\ pc = "validate"
         => /\ Len(hist) = epoch - 1
            /\ decided = epoch - 1
            /\ updates = epoch * StepsPerEpoch
    /\ pc = "callbacks"
         => /\ Len(hist) = epoch
            /\ decided = epoch - 1
            /\ vbatch = ValSteps
            /\ updates = epoch * StepsPerEpoch

\* C7 (step part): no step taken during a validation pass changes the
\* weights; checkpoint writes and stop decisions are taken only in the
\* callbacks position, for the epoch just validated.
C7_Steps ==
    /\ pc = "validate" => weights' = weights /\ updates' = updates
    /\ updates' # updates => pc = "train" /\ Len(hist) = epoch - 1
    /\ ( \/ decided' # decided
         \/ ckptWrites' # ckptWrites
         \/ stop_training' # stop_training
         \/ bestFile' # bestFile )
         => pc = "callbacks" /\ decided' = epoch /\ Len(hist) = epoch

\* C7: train-update of epoch i, then validation of epoch i, then the
\* callbacks of epoch i, then train-update of epoch i+1.
C7_EpochOrdering == [](C7_Positions) /\ [][C7_Steps]_vars

\* the second epoch's validation pass, half done
C7_SecondValidation ==
    /\ pc = "validate"
    /\ epoch = 2
    /\ vbatch = 1
    /\ decided = 1

----------------------------------------------------------------------------
(* Dataset partition: image_dataset_from_directory, called twice by        *)
(* get_datasets with the same validation_split and seed                    *)

Range(q) == {q[i] : i \in 1..Len(q)}

\* the directory listing, sorted
RECURSIVE SortedListing(_)
SortedListing(S) ==
    IF S = {} THEN << >>
    ELSE LET m == CHOOSE x \in S : \A y \in S : x <= y
         IN  <<m>> \o SortedListing(S \ {m})

\* one draw of the generator (a small linear congruential stand-in for
\* numpy's RandomState)
RngNext(s) == (5 * s + 3) % 16

Swap(q, i, j) == [q EXCEPT ![i] = q[j], ![j] = q[i]]

\* rng.shuffle: Fisher-Yates from the last position down, one draw per position
RECURSIVE ShuffleFrom(_, _, _)
ShuffleFrom(q, i, s) ==
    IF i <= 1 THEN q
    ELSE LET s1 == RngNext(s)
             j  == (s1 % i) + 1
         IN  ShuffleFrom(Swap(q, i, j), i - 1, s1)

\* variant: the shuffle draws from the process-wide generator
ShuffleRngStart_Global(sd, g) == g

\* rng = np.random.RandomState(seed): the generator of a loader call starts
\* from the seed argument, not from the process-wide generator state g
ShuffleRngStart(sd, g) == sd

\* num_val_samples = int(validation_split * len(samples))
NumValSamples(n, pct) == (pct * n) \div 100

\* variant: the training slice ends one sample late
TrainingSlice_OffByOne(q, k) ==
    SubSeq(q, 1, IF k = 0 THEN 0 ELSE Len(q) - k + 1)

\* samples[:-num_val_samples]
TrainingSlice(q, k) == SubSeq(q, 1, IF k = 0 THEN 0 ELSE Len(q) - k)

\* samples[-num_val_samples:]
ValidationSlice(q, k) == SubSeq(q, IF k = 0 THEN 1 ELSE Len(q) - k + 1, Len(q))

\* index_directory followed by get_training_or_validation_split
LoadSubset(subset, g) ==
    LET listing  == SortedListing(files)
        shuffled == ShuffleFrom(listing, Len(listing),
                                ShuffleRngStart(seed, g))
        k        == NumValSamples(Len(shuffled), split)
    IN  IF subset = "training" THEN TrainingSlice(shuffled, k)
        ELSE ValidationSlice(shuffled, k)

InitPartition ==
    /\ files \in (SUBSET (1..MaxFiles)) \ {{}}
    /\ split \in SplitPercents
    /\ seed \in 0..MaxSeed
    /\ call = 1
    /\ partPc = "training"
    /\ train_ds = << {}, {} >>
    /\ val_ds = << {}, {} >>
    /\ TrainIdle
    /\ StreamIdle
    /\ UsersIdle

\* train_ds = image_dataset_from_directory(..., subset="training", seed=seed);
\* an empty subset raises ValueError (no images found)
LoadTraining ==
    /\ UNCHANGED notPart
    /\ partPc = "training"
    /\ \E g \in RngStates :
         LET got == LoadSubset("training", g)
         IN  IF got = << >>
             THEN /\ partPc' = "raised"
                  /\ UNCHANGED train_ds
             ELSE /\ train_ds' = [train_ds EXCEPT ![call] = Range(got)]
                  /\ partPc' = "validation"
    /\ UNCHANGED <<files, split, seed, call, val_ds>>

\* val_ds = image_dataset_from_directory(..., subset="validation", seed=seed)
LoadValidation ==
    /\ UNCHANGED notPart
    /\ partPc = "validation"
    /\ \E g \in RngStates :
         LET got == LoadSubset("validation", g)
         IN  IF got = << >>
             THEN /\ partPc' = "raised"
                  /\ UNCHANGED val_ds
             ELSE /\ val_ds' = [val_ds EXCEPT ![call] = Range(got)]
                  /\ partPc' = "returned"
    /\ UNCHANGED <<files, split, seed, call, train_ds>>

\* a second, independent get_datasets call on the same directory
CallAgain ==
    /\ UNCHANGED notPart
    /\ partPc = "returned"
    /\ call = 1
    /\ call' = 2
    /\ partPc' = "training"
    /\ UNCHANGED <<files, split, seed, train_ds, val_ds>>

NextPartition ==
    \/ LoadTraining
    \/ LoadValidation
    \/ CallAgain

SpecPartition == InitPartition /\ [][NextPartition]_vars

Returned(c) == (call > c) \/ (call = c /\ partPc = "returned")

\* C5: the training subset and the validation subset returned by
\* get_datasets share no image, and together they are exactly the discovered
\* images.
C5_DisjointAndCovering ==
    \A c \in 1..2 :
        Returned(c) => /\ train_ds[c] \cap val_ds[c] = {}
                       /\ train_ds[c] \cup val_ds[c] = files

\* a returned split of five images with both subsets populated
C5_SplitOfFive ==
    /\ Returned(1)
    /\ Cardinality(files) = 5
    /\ split = 20
    /\ Cardinality(val_ds[1]) = 1
    /\ Cardinality(train_ds[1]) = 4

\* C6: for the same directory contents, split fraction and seed, two
\* independent get_datasets calls return the same training set and the same
\* validation set.
C6_Deterministic ==
    Returned(2) => train_ds[1] = train_ds[2] /\ val_ds[1] = val_ds[2]

\* both calls returned, with a split the shuffle decides
C6_BothCallsReturned ==
    /\ Returned(2)
    /\ Cardinality(files) >= 4
    /\ val_ds[2] # {}
    /\ train_ds[2] # {}

----------------------------------------------------------------------------
(* Optimized stream: configure_dataset = shuffle(1000), cache(), prefetch() *)

Elements == 1..NumBatches

\* shuffle stage: the elements it may emit next are those held in its
\* buffer, i.e. the not yet emitted ones among the first
\* (emitted + buffer size) upstream elements
ShuffleCandidates(done) ==
    {x \in Elements : x \notin Range(done)
                      /\ x <= Len(done) + ShuffleBufferSize}

\* what the stage before the cache may emit next in a pass
UpstreamCandidates(done) ==
    IF shuffleOn THEN ShuffleCandidates(done) ELSE {Len(done) + 1}

\* ds.cache() sits after ds.shuffle(): once the cache holds a whole pass the
\* cache stage serves every later iteration itself and the stages before it
\* are not run again
ServedFromCache == cacheComplete

\* variant: the producer never waits
ProducerMayRun_Always(n, limit) == TRUE

\* prefetch: the producer prepares an element only while the buffer holds
\* fewer than its bound
ProducerMayRun(n, limit) == n < limit

InitStream ==
    /\ shuffleOn \in BOOLEAN
    /\ iteration = 1
    /\ shuffleRuns = 0
    /\ cache = << >>
    /\ cacheComplete = FALSE
    /\ produced = << >>
    /\ buffer = << >>
    /\ bufferLimit = 1
    /\ consumed = << >>
    /\ orders = << >>
    /\ TrainIdle
    /\ PartIdle
    /\ UsersIdle

\* the prefetch producer prepares the next element of the iteration
Produce ==
    /\ UNCHANGED notStream
    /\ Len(produced) < NumBatches
    /\ ProducerMayRun(Len(buffer), bufferLimit)
    /\ IF ServedFromCache
       THEN /\ produced' = Append(produced, cache[Len(produced) + 1])
            /\ buffer' = Append(buffer, cache[Len(produced) + 1])
            /\ UNCHANGED <<cache, cacheComplete, shuffleRuns>>
       ELSE \E x \in UpstreamCandidates(produced) :
              /\ produced' = Append(produced, x)
              /\ buffer' = Append(buffer, x)
              /\ cache' = Append(cache, x)
              /\ cacheComplete' = (Len(cache) + 1 = NumBatches)
              /\ shuffleRuns' = IF shuffleOn /\ produced = << >>
                                THEN shuffleRuns + 1 ELSE shuffleRuns
    /\ UNCHANGED <<shuffleOn, iteration, bufferLimit, consumed, orders>>

\* the training loop takes the next prepared element
Consume ==
    /\ UNCHANGED notStream
    /\ Len(buffer) > 0
    /\ consumed' = Append(consumed, Head(buffer))
    /\ buffer' = Tail(buffer)
    /\ UNCHANGED <<shuffleOn, iteration, shuffleRuns, cache, cacheComplete,
                   produced, bufferLimit, orders>>

\* prefetch(AUTOTUNE): the bound starts at 1 and is doubled when the
\* consumer found the buffer empty
Autotune ==
    /\ UNCHANGED notStream
    /\ Len(buffer) = 0
    /\ bufferLimit * 2 <= MaxPrefetch
    /\ bufferLimit' = bufferLimit * 2
    /\ UNCHANGED <<shuffleOn, iteration, shuffleRuns, cache, cacheComplete,
                   produced, buffer, consumed, orders>>

\* the pass is exhausted: model.fit iterates the stream again for the next epoch
NextIteration ==
    /\ UNCHANGED notStream
    /\ Len(consumed) = NumBatches
    /\ iteration < MaxIterations
    /\ iteration' = iteration + 1
    /\ orders' = Append(orders, consumed)
    /\ produced' = << >>
    /\ buffer' = << >>
    /\ consumed' = << >>
    /\ UNCHANGED <<shuffleOn, shuffleRuns, cache, cacheComplete, bufferLimit>>

NextStream ==
    \/ Produce
    \/ Consume
    \/ Autotune
    \/ NextIteration

SpecStream == InitStream /\ [][NextStream]_vars

\* C8 (state part): the prefetch buffer never holds more than its bound
C8_Bounded ==
    /\ Len(buffer) >= 0
    /\ Len(buffer) <= bufferLimit
    /\ bufferLimit <= MaxPrefetch
    /\ Len(buffer) = Len(produced) - Len(consumed)

\* C8 (step part): the producer takes no step while the buffer is full, the
\* consumer takes no step while it is empty
C8_Blocking ==
    /\ Len(buffer) >= bufferLimit => Len(produced') <= Len(produced)
    /\ Len(buffer) = 0 => Len(consumed') <= Len(consumed)

\* C8: under every interleaving of producer and consumer the number of
\* prepared, unconsumed batches stays within 0 and the buffer bound.
C8_Backpressure == [](C8_Bounded) /\ [][C8_Blocking]_vars

\* the buffer is full at the raised bound while elements remain to prepare
C8_FullBuffer ==
    /\ bufferLimit = MaxPrefetch
    /\ Len(buffer) = bufferLimit
    /\ Len(produced) < NumBatches

IsPermutation(q) == Len(q) = NumBatches /\ Range(q) = Elements

\* C9: every iteration of the stream replays each batch of the dataset
\* exactly once and, with shuffle on, the shuffle stage is applied again in
\* every iteration, so that a later iteration's order is drawn afresh.
C9_ReplaysAndReshuffles ==
    /\ \A i \in 1..Len(orders) : IsPermutation(orders[i])
    /\ (shuffleOn /\ produced # << >>) => shuffleRuns = iteration

----------------------------------------------------------------------------
(* User store: register_user / get_user and their two endpoints            *)

UserIds == 1..MaxUserIds
Emails == 1..MaxEmails
Usernames == 1..MaxUsernames

\* variant: the loop compares the wrong field
EmailTaken_ByUsername(db, email) ==
    \E id \in DOMAIN db : db[id].username = email

\* the loop of register_user: some stored user has this e-mail
EmailTaken(db, email) == \E id \in DOMAIN db : db[id].email = email

\* _users_db[user_id] = user_data
StoreUser(db, id, rec) ==
    [i \in DOMAIN db \cup {id} |-> IF i = id THEN rec ELSE db[i]]

InitUsers ==
    /\ users_db = << >>
    /\ requests = 0
    /\ lastReq = [op |-> "none"]
    /\ lastResp = [status |-> 0]
    /\ TrainIdle
    /\ PartIdle
    /\ StreamIdle

\* POST /register: register_user, then 400 if it returned None.
\* str(uuid4()) is a user_id no stored user has.
Register ==
    /\ UNCHANGED notUsers
    /\ requests < MaxRequests
    /\ requests' = requests + 1
    /\ \E username \in Usernames, email \in Emails :
         /\ lastReq' = [op |-> "register", username |-> username,
                        email |-> email]
         /\ IF EmailTaken(users_db, email)
            THEN /\ lastResp' = [status |-> StatusBadRequest]
                 /\ UNCHANGED users_db
            ELSE \E id \in UserIds \ DOMAIN users_db :
                   /\ users_db' = StoreUser(users_db, id,
                                            [username |-> username,
                                             email |-> email])
                   /\ lastResp' = [status |-> StatusOk, user_id |-> id,
                                   username |-> username, email |-> email]

\* GET /{user_id}: verify_firebase_token, then get_user, 404 if None
FetchUser ==
    /\ UNCHANGED notUsers
    /\ requests < MaxRequests
    /\ requests' = requests + 1
    /\ \E id \in UserIds, tokenValid \in BOOLEAN :
         /\ lastReq' = [op |-> "fetch", user_id |-> id]
         /\ lastResp' =
              IF ~tokenValid THEN [status |-> StatusUnauthorized]
              ELSE IF id \in DOMAIN users_db
                   THEN [status |-> StatusOk, user_id |-> id,
                         username |-> users_db[id].username,
                         email |-> users_db[id].email]
                   ELSE [status |-> StatusNotFound]
    /\ UNCHANGED users_db

NextUsers ==
    \/ Register
    \/ FetchUser

SpecUsers == InitUsers /\ [][NextUsers]_vars

\* C10 (state part): no two stored users have the same e-mail
C10_UniqueEmails ==
    \A i, j \in DOMAIN users_db :
        users_db[i].email = users_db[j].email => i = j

\* C10 (step part): a registration with a stored e-mail answers 400 and
\* leaves the store as it is; one with a new e-mail adds exactly one entry
\* under a user_id not in the store and changes no existing entry
C10_RegisterStep ==
    (requests' = requests + 1 /\ lastReq'.op = "register")
    => IF \E id \in DOMAIN users_db : users_db[id].email = lastReq'.email
       THEN /\ lastResp'.status = StatusBadRequest
            /\ users_db' = users_db
       ELSE /\ lastResp'.status = StatusOk
            /\ lastResp'.user_id \notin DOMAIN users_db
            /\ DOMAIN users_db' = DOMAIN users_db \cup {lastResp'.user_id}
            /\ users_db'[lastResp'.user_id] =
                 [username |-> lastReq'.username, email |-> lastReq'.email]
            /\ \A id \in DOMAIN users_db : users_db'[id] = users_db[id]

\* C10: after any sequence of register_user calls the store holds each
\* e-mail at most once; a duplicate is refused without a change, a new
\* e-mail adds one entry.
C10_EmailUniqueness == [](C10_UniqueEmails) /\ [][C10_RegisterStep]_vars

\* two users stored and a third registration refused for its e-mail
C10_DuplicateRefused ==
    /\ Cardinality(DOMAIN users_db) = 2
    /\ lastReq.op = "register"
    /\ lastResp.status = StatusBadRequest
    /\ \E id \in DOMAIN users_db : users_db[id].email = lastReq.email

=============================================================================
